---- MODULE Spec2Model ----
(***************************************************************************)
(* Model of intuition-trust/scripts/intuition_query.py: a command-line     *)
(* client that sends one GraphQL query per operation (three for the trust  *)
(* score), folds the answers into a report and prints it.                  *)
(*                                                                         *)
(* JSON / Python values are tagged records so that values of different     *)
(* Python types can be told apart:                                         *)
(*   Null            None / JSON null                                      *)
(*   Num(n)          a number                                              *)
(*   Dec4(n)         the float n / 10^4 (a value of round(x, 4))           *)
(*   Str(s)          a string, s the sequence of its fragments             *)
(*   List(e)         a list                                                *)
(*   Obj(f)          a dict, f a function from the present keys            *)
(* A Python evaluation either returns a value or raises.                   *)
(*                                                                         *)
(* The process is followed from the parsed command line to its exit; it    *)
(* blocks in urlopen once per request.  The choice of endpoint (--testnet) *)
(* only selects the URL and is left out.  Stake amounts are non-negative.  *)
(***************************************************************************)
EXTENDS Integers, Sequences, FiniteSets, TLC

\* ---------------------------------------------------------------- bounds
\* longest triples / positions list served with every record shape
MaxShapeLen == 2
\* longest triples / positions list served with well-formed records
MaxListLen == 6
\* the value given to --limit when it is given
LimitArg == 2

\* ------------------------------------------------------ program constants
DefaultLimit == 10
TrustScoreLimit == 50
TopN == 5
AddressChars == 10
RatioScale == 10000

\* ------------------------------------------------------------ JSON values
Null == [t |-> "null"]
Num(n) == [t |-> "num", v |-> n]
Dec4(n) == [t |-> "dec4", v |-> n]
Str(s) == [t |-> "str", v |-> s]
List(e) == [t |-> "list", e |-> e]
Obj(f) == [t |-> "obj", f |-> f]
EmptyObj == Obj([k \in {} |-> Null])

IsNull(v) == v.t = "null"
IsObj(v) == v.t = "obj"

\* Python's truth value of a JSON value
Truthy(v) ==
  CASE v.t = "null" -> FALSE
    [] v.t = "num" -> v.v # 0
    [] v.t = "dec4" -> v.v # 0
    [] v.t = "str" -> v.v # <<>>
    [] v.t = "list" -> v.e # <<>>
    [] v.t = "obj" -> DOMAIN v.f # {}

\* key in d, for a dict d
HasKey(d, k) == k \in DOMAIN d.f
\* d.get(k, dflt) for a dict d
Get(d, k, dflt) == IF k \in DOMAIN d.f THEN d.f[k] ELSE dflt
\* a or b
Or(a, b) == IF Truthy(a) THEN a ELSE b

\* ------------------------------------------------- evaluation outcomes
Ok(v) == [raised |-> FALSE, value |-> v]
Raise(cls) == [raised |-> TRUE, exc |-> cls]

\* ------------------------------------------ the HTTP call and its result
\* exception classes the call can end in, with their base classes
Bases(cls) ==
  CASE cls = "HTTPError" -> {"HTTPError", "URLError", "OSError", "Exception"}
    [] cls = "URLError" -> {"URLError", "OSError", "Exception"}
    [] cls = "TimeoutError" -> {"TimeoutError", "OSError", "Exception"}
    [] cls = "JSONDecodeError" -> {"JSONDecodeError", "ValueError", "Exception"}

IsInstance(e, cls) == cls \in Bases(e.cls)

\* the decimal rendering of a status code in an f-string
CodeStr(code) ==
  CASE code = 404 -> "404"
    [] code = 500 -> "500"

\* outcomes of urlopen + read + json.loads that are exceptions
Failures ==
  { [kind |-> "exc", cls |-> "HTTPError", code |-> 404, reason |-> "Not Found"],
    [kind |-> "exc", cls |-> "HTTPError", code |-> 500, reason |-> "Internal Server Error"],
    [kind |-> "exc", cls |-> "URLError", code |-> 0, reason |-> "timed out"],
    [kind |-> "exc", cls |-> "TimeoutError", code |-> 0, reason |-> "The read operation timed out"],
    [kind |-> "exc", cls |-> "JSONDecodeError", code |-> 0, reason |-> "Expecting value"] }

Body(b) == [kind |-> "body", body |-> b]

ErrorResult(msg) == Obj([error |-> Str(msg)])

\* the handlers tried in the wrong order: URLError before its subclass
execute_query_urlerror_first(outcome) ==
  IF outcome.kind = "body" THEN outcome.body
  ELSE IF IsInstance(outcome, "URLError")
       THEN ErrorResult(<<"URL Error: ", outcome.reason>>)
  ELSE IF IsInstance(outcome, "HTTPError")
       THEN ErrorResult(<<"HTTP Error ", CodeStr(outcome.code), ": ", outcome.reason>>)
  ELSE ErrorResult(<<"Request failed: ", outcome.reason>>)

\* what execute_query returns for an outcome of the call (try / except chain)
execute_query(outcome) ==
  IF outcome.kind = "body" THEN outcome.body
  ELSE IF IsInstance(outcome, "HTTPError")
       THEN ErrorResult(<<"HTTP Error ", CodeStr(outcome.code), ": ", outcome.reason>>)
  ELSE IF IsInstance(outcome, "URLError")
       THEN ErrorResult(<<"URL Error: ", outcome.reason>>)
  ELSE IF IsInstance(outcome, "Exception")
       THEN ErrorResult(<<"Request failed: ", outcome.reason>>)
  ELSE Null

\* ------------------------------------------------------ small helpers
Min(a, b) == IF a < b THEN a ELSE b
\* s[:n]
Take(s, n) == SubSeq(s, 1, Min(n, Len(s)))

\* all sequences over S of length lo..hi
SeqsOf(S, lo, hi) == UNION { [1..n -> S] : n \in lo..hi }

\* ------------------------------------------ records the endpoint serves
\* identifiers are written one character per fragment
LongId == <<"0", "x", "a", "1", "b", "2", "c", "3", "d", "4", "e", "5">>
ShortId == <<"0", "x", "9">>

AggOf(n) == Obj([aggregate |-> Obj([count |-> n])])

AtomFull ==
  Obj([label |-> Str(<<"Uniswap">>), type |-> Str(<<"Thing">>),
       created_at |-> Str(<<"2024-01-01">>),
       vault |-> Obj([total_shares |-> Num(5), position_count |-> Num(2)]),
       as_subject_triples_aggregate |-> AggOf(Num(3)),
       as_object_triples_aggregate |-> AggOf(Num(1))])
\* vault null, aggregate keys not in the record
AtomBare ==
  Obj([label |-> Str(<<"Uniswap">>), type |-> Null, vault |-> Null])
\* vault present, its fields null
AtomNullShares ==
  Obj([label |-> Str(<<"Uniswap">>),
       vault |-> Obj([total_shares |-> Null, position_count |-> Null]),
       as_subject_triples_aggregate |-> AggOf(Num(3)),
       as_object_triples_aggregate |-> AggOf(Num(1))])
\* count null inside a present aggregate
AtomNullCount ==
  Obj([label |-> Null, vault |-> EmptyObj,
       as_subject_triples_aggregate |-> AggOf(Null),
       as_object_triples_aggregate |-> AggOf(Num(1))])
\* the aggregate wrapper itself null
AtomNullAgg ==
  Obj([label |-> Str(<<"Uniswap">>), vault |-> Null,
       as_subject_triples_aggregate |-> Null,
       as_object_triples_aggregate |-> AggOf(Num(1))])
\* the inner aggregate null
AtomNullInnerAgg ==
  Obj([label |-> Str(<<"Uniswap">>), vault |-> Null,
       as_subject_triples_aggregate |-> AggOf(Num(3)),
       as_object_triples_aggregate |-> Obj([aggregate |-> Null])])

AtomShapes ==
  { AtomFull, AtomBare, AtomNullShares, AtomNullCount, AtomNullAgg,
    AtomNullInnerAgg, EmptyObj }

TripleFor ==
  Obj([predicate |-> Obj([label |-> Str(<<"is">>)]),
       object |-> Obj([label |-> Str(<<"safe">>)]),
       vault |-> Obj([total_shares |-> Num(2)]),
       counter_vault |-> Obj([total_shares |-> Num(1)])])
TripleAgainst ==
  Obj([predicate |-> Obj([label |-> Str(<<"is">>)]),
       object |-> Obj([label |-> Str(<<"scam">>)]),
       vault |-> Obj([total_shares |-> Num(0)]),
       counter_vault |-> Obj([total_shares |-> Num(3)])])
\* no stake anywhere: vault null, counter_vault and predicate not present
TripleBare ==
  Obj([object |-> Obj([label |-> Null]), vault |-> Null])
\* shares served as decimal strings, counter shares null
TripleStr ==
  Obj([predicate |-> Obj([label |-> Str(<<"has">>)]),
       object |-> Obj([label |-> Str(<<"audit">>)]),
       vault |-> Obj([total_shares |-> Str(<<"1", "2">>)]),
       counter_vault |-> Obj([total_shares |-> Null])])
\* predicate present and null
TripleNullPred ==
  Obj([predicate |-> Null,
       object |-> Obj([label |-> Str(<<"safe">>)]),
       vault |-> Obj([total_shares |-> Num(2)]),
       counter_vault |-> Null])

TripleShapes == { TripleFor, TripleBare, TripleStr, TripleNullPred }
TripleBulk == { TripleFor, TripleAgainst }

PosLabelled ==
  Obj([account |-> Obj([id |-> Str(LongId), label |-> Str(<<"alice">>)]),
       shares |-> Num(5)])
PosAnon ==
  Obj([account |-> Obj([id |-> Str(LongId), label |-> Null]),
       shares |-> Num(3)])
PosShort ==
  Obj([account |-> Obj([id |-> Str(ShortId), label |-> Str(<<>>)]),
       shares |-> Str(<<"7">>)])
PosNullAccount ==
  Obj([account |-> Null, shares |-> Num(1)])

PositionShapes == { PosLabelled, PosAnon, PosShort, PosNullAccount }
PositionBulk == { PosLabelled, PosAnon }

Candidate ==
  Obj([term_id |-> Num(1), label |-> Str(<<"Uniswap">>)])

\* --------------------------------------------------- calculate_trust_score
\* "data" in qr and qr["data"].get(key), for a result qr of execute_query
DataField(qr, key) ==
  IF ~HasKey(qr, "data") THEN Ok(Null)
  ELSE IF ~IsObj(qr.f.data) THEN Raise("AttributeError")
  ELSE Ok(Get(qr.f.data, key, Null))

\* atom.get(key, {}).get("aggregate", {}).get("count", 0)
AggCount(atom, key) ==
  LET agg == Get(atom, key, EmptyObj) IN
  IF ~IsObj(agg) THEN Raise("AttributeError")
  ELSE LET inner == Get(agg, "aggregate", EmptyObj) IN
       IF ~IsObj(inner) THEN Raise("AttributeError")
       ELSE Ok(Get(inner, "count", Num(0)))

\* the numeric defaults of the metrics container
ZeroMetrics ==
  [total_stake |-> Num(0), position_count |-> Num(0),
   claims_as_subject |-> Num(0), claims_as_object |-> Num(0)]

\* the entity block: the atom summary and the four metrics read from it
EntityPart(atom_data) ==
  LET field == DataField(atom_data, "atom") IN
  IF field.raised THEN field
  ELSE IF ~Truthy(field.value)
       THEN Ok([atom |-> Null, m |-> ZeroMetrics])
  ELSE LET atom == field.value
           vault == Or(Get(atom, "vault", Null), EmptyObj)
           subj == AggCount(atom, "as_subject_triples_aggregate")
           obj == AggCount(atom, "as_object_triples_aggregate")
       IN IF subj.raised THEN subj
          ELSE IF obj.raised THEN obj
          ELSE Ok([atom |-> Obj([label |-> Get(atom, "label", Null),
                                 type |-> Get(atom, "type", Null),
                                 created_at |-> Get(atom, "created_at", Null)]),
                   m |-> [total_stake |-> Get(vault, "total_shares", Num(0)),
                          position_count |-> Get(vault, "position_count", Num(0)),
                          claims_as_subject |-> subj.value,
                          claims_as_object |-> obj.value]])

DigitVal(c) ==
  CASE c = "0" -> 0 [] c = "1" -> 1 [] c = "2" -> 2 [] c = "3" -> 3
    [] c = "4" -> 4 [] c = "5" -> 5 [] c = "6" -> 6 [] c = "7" -> 7
    [] c = "8" -> 8 [] c = "9" -> 9 [] OTHER -> -1

RECURSIVE ParseDigits(_, _)
\* the value of a digit string, -1 when it is not one
ParseDigits(s, acc) ==
  IF s = <<>> THEN acc
  ELSE IF DigitVal(Head(s)) < 0 THEN -1
  ELSE ParseDigits(Tail(s), 10 * acc + DigitVal(Head(s)))

\* float(v)
Float(v) ==
  CASE v.t = "num" -> Ok(v.v)
    [] v.t = "str" -> IF v.v # <<>> /\ ParseDigits(v.v, 0) >= 0
                      THEN Ok(ParseDigits(v.v, 0))
                      ELSE Raise("ValueError")
    [] OTHER -> Raise("TypeError")

\* float((triple.get(key) or {}).get("total_shares") or 0)
Stake(triple, key) ==
  LET vault == Or(Get(triple, key, Null), EmptyObj) IN
  IF ~IsObj(vault) THEN Raise("AttributeError")
  ELSE Float(Or(Get(vault, "total_shares", Null), Num(0)))

\* triple.get(key, {}).get("label")
SubLabel(triple, key) ==
  LET sub == Get(triple, key, EmptyObj) IN
  IF ~IsObj(sub) THEN Raise("AttributeError")
  ELSE Ok(Get(sub, "label", Null))

\* one pass of the loop body over a triple
ClaimOf(triple) ==
  LET positive == Stake(triple, "vault")
      negative == Stake(triple, "counter_vault")
      pred == SubLabel(triple, "predicate")
      obj == SubLabel(triple, "object")
  IN IF positive.raised THEN positive
     ELSE IF negative.raised THEN negative
     ELSE IF pred.raised THEN pred
     ELSE IF obj.raised THEN obj
     ELSE Ok(Obj([predicate |-> pred.value, object |-> obj.value,
                  positive_stake |-> Num(positive.value),
                  negative_stake |-> Num(negative.value)]))

\* the slice bug: the loop runs over the whole list
TopSlice_uncapped(list) == list

\* list[:5]
TopSlice(list) == Take(list, TopN)

RECURSIVE ClaimLoop(_, _)
\* the loop over the sliced triples; acc carries the sums and top_claims
ClaimLoop(rest, acc) ==
  IF rest = <<>> THEN Ok(acc)
  ELSE LET c == ClaimOf(Head(rest)) IN
       IF c.raised THEN c
       ELSE ClaimLoop(Tail(rest),
              [positive_signal |-> acc.positive_signal + c.value.f.positive_stake.v,
               negative_signal |-> acc.negative_signal + c.value.f.negative_stake.v,
               top_claims |-> Append(acc.top_claims, c.value)])

NoClaims == [positive_signal |-> 0, negative_signal |-> 0, top_claims |-> <<>>]

ClaimsPart(triples_data) ==
  LET field == DataField(triples_data, "triples") IN
  IF field.raised THEN field
  ELSE IF ~Truthy(field.value) THEN Ok(NoClaims)
  ELSE ClaimLoop(TopSlice(field.value.e), NoClaims)

\* one pass of the loop body over a position
AttestorOf(position) ==
  LET account == Or(Get(position, "account", Null), EmptyObj) IN
  Obj([address |-> Get(account, "id", Null),
       label |-> Get(account, "label", Null),
       stake |-> Get(position, "shares", Null)])

AttestorsPart(positions_data) ==
  LET field == DataField(positions_data, "positions") IN
  IF field.raised THEN field
  ELSE IF ~Truthy(field.value) THEN Ok(<<>>)
  ELSE LET top == TopSlice(field.value.e) IN
       Ok([i \in 1..Len(top) |-> AttestorOf(top[i])])

\* round(p / total, 4) in units of 10^-4, ties to even
Round4(p, total) ==
  LET q == (p * RatioScale) \div total
      r == (p * RatioScale) % total
  IN IF 2 * r < total THEN q
     ELSE IF 2 * r > total THEN q + 1
     ELSE IF q % 2 = 0 THEN q ELSE q + 1

\* the default of trust_ratio is 0 instead of None
TrustRatio_zero_default(positive, negative) ==
  IF positive + negative > 0
  THEN Dec4(Round4(positive, positive + negative))
  ELSE Num(0)

\* trust_ratio as the last block of the function leaves it
TrustRatio(positive, negative) ==
  IF positive + negative > 0
  THEN Dec4(Round4(positive, positive + negative))
  ELSE Null

\* the report, or the exception the function ends in
calculate_trust_score(atom_id, atom_data, triples_data, positions_data) ==
  LET entity == EntityPart(atom_data)
      claims == ClaimsPart(triples_data)
      attestors == AttestorsPart(positions_data)
  IN IF entity.raised THEN entity
     ELSE IF claims.raised THEN claims
     ELSE IF attestors.raised THEN attestors
     ELSE Ok(Obj(
       [atom_id |-> atom_id,
        atom |-> entity.value.atom,
        metrics |-> Obj(
          [total_stake |-> entity.value.m.total_stake,
           position_count |-> entity.value.m.position_count,
           claims_as_subject |-> entity.value.m.claims_as_subject,
           claims_as_object |-> entity.value.m.claims_as_object,
           positive_signal |-> Num(claims.value.positive_signal),
           negative_signal |-> Num(claims.value.negative_signal),
           trust_ratio |-> TrustRatio(claims.value.positive_signal,
                                      claims.value.negative_signal)]),
        top_claims |-> List(claims.value.top_claims),
        top_attestors |-> List(attestors.value)]))

\* ------------------------------------------------------------ format_output
\* a printed line: the f-string's text and the values substituted into it
Line(text, vals) == [text |-> text, vals |-> vals]

\* attestor.get("label") or attestor.get("address", "?")[:10] + "..."
AttestorLabel(attestor) ==
  LET label == Get(attestor, "label", Null) IN
  IF Truthy(label) THEN Ok(label)
  ELSE LET address == Get(attestor, "address", Str(<<"?">>)) IN
       IF address.t = "str"
       THEN Ok(Str(Take(address.v, AddressChars) \o <<"...">>))
       ELSE Raise("TypeError")

RECURSIVE AttestorLines(_, _)
\* the loop over top_attestors
AttestorLines(rest, acc) ==
  IF rest = <<>> THEN Ok(acc)
  ELSE LET label == AttestorLabel(Head(rest)) IN
       IF label.raised THEN label
       ELSE AttestorLines(Tail(rest),
              Append(acc, Line("  - {label}: {stake}",
                               <<label.value, Get(Head(rest), "stake", Num(0))>>)))

ClaimLine(claim) ==
  Line("  - {pred} -> {obj} (positive: {pos}, negative: {neg})",
       << Get(claim, "predicate", Str(<<"?">>)), Get(claim, "object", Str(<<"?">>)),
          Get(claim, "positive_stake", Num(0)), Get(claim, "negative_stake", Num(0)) >>)

EntityLines(data) ==
  IF HasKey(data, "atom") /\ Truthy(data.f.atom)
  THEN << Line("Entity: {label}", <<Get(data.f.atom, "label", Str(<<"Unknown">>))>>),
          Line("Type: {type}", <<Get(data.f.atom, "type", Str(<<"N/A">>))>>),
          Line("", <<>>) >>
  ELSE <<>>

MetricLines(data) ==
  IF HasKey(data, "metrics")
  THEN LET m == data.f.metrics IN
       << Line("Metrics:", <<>>),
          Line("  Total Stake: {}", <<Get(m, "total_stake", Num(0))>>),
          Line("  Position Count: {}", <<Get(m, "position_count", Num(0))>>),
          Line("  Claims as Subject: {}", <<Get(m, "claims_as_subject", Num(0))>>),
          Line("  Claims as Object: {}", <<Get(m, "claims_as_object", Num(0))>>) >>
       \o (IF ~IsNull(Get(m, "trust_ratio", Null))
           THEN <<Line("  Trust Ratio: {:.2%}", <<m.f.trust_ratio>>)>>
           ELSE <<>>)
       \o <<Line("", <<>>)>>
  ELSE <<>>

ClaimLines(data) ==
  IF HasKey(data, "top_claims") /\ Truthy(data.f.top_claims)
  THEN <<Line("Top Claims:", <<>>)>>
       \o [i \in 1..Len(data.f.top_claims.e) |-> ClaimLine(data.f.top_claims.e[i])]
       \o <<Line("", <<>>)>>
  ELSE <<>>

\* what format_output returns, or the exception it ends in
format_output(data, output_format) ==
  IF output_format = "json"
  THEN Ok([mode |-> "json", indent |-> 2, doc |-> data])
  ELSE IF HasKey(data, "error")
  THEN Ok([mode |-> "text", lines |-> <<Line("Error: {}", <<data.f.error>>)>>])
  ELSE LET head == EntityLines(data) \o MetricLines(data) \o ClaimLines(data) IN
       IF HasKey(data, "top_attestors") /\ Truthy(data.f.top_attestors)
       THEN LET att == AttestorLines(data.f.top_attestors.e,
                                     <<Line("Top Attestors:", <<>>)>>) IN
            IF att.raised THEN att
            ELSE Ok([mode |-> "text", lines |-> head \o att.value])
       ELSE Ok([mode |-> "text", lines |-> head])

\* ------------------------------------------------------------ command line
OpFlags == <<"search", "atom_id", "address", "triples_about", "positions", "trust_score">>
IntFlags == {"atom_id", "triples_about", "positions", "trust_score"}

\* values a flag is given on the command line: the ones Python treats as
\* false (0, the empty string) and ordinary ones
FlagValues(flag) ==
  IF flag \in IntFlags THEN {Num(0), Num(7)}
  ELSE {Str(<<>>), Str(<<"u", "n", "i">>)}

\* command lines: at most one operation flag, --limit and --format optional
Argvs ==
  { [flag |-> "none", value |-> Null, limit |-> l, format |-> f] :
      l \in {Null, Num(LimitArg)}, f \in {"omitted", "text"} }
  \cup UNION { { [flag |-> OpFlags[i], value |-> v, limit |-> l, format |-> f] :
                   v \in FlagValues(OpFlags[i]),
                   l \in {Null, Num(LimitArg)}, f \in {"omitted", "text"} } :
               i \in 1..Len(OpFlags) }

\* the namespace parse_args returns: absent flags None, defaults filled in
ParseArgs(argv) ==
  [search |-> IF argv.flag = "search" THEN argv.value ELSE Null,
   atom_id |-> IF argv.flag = "atom_id" THEN argv.value ELSE Null,
   address |-> IF argv.flag = "address" THEN argv.value ELSE Null,
   triples_about |-> IF argv.flag = "triples_about" THEN argv.value ELSE Null,
   positions |-> IF argv.flag = "positions" THEN argv.value ELSE Null,
   trust_score |-> IF argv.flag = "trust_score" THEN argv.value ELSE Null,
   limit |-> IF IsNull(argv.limit) THEN Num(DefaultLimit) ELSE argv.limit,
   format |-> IF argv.format = "omitted" THEN "json" ELSE argv.format]

\* any([args.search, args.atom_id, ...])
AnyFlag(a) == \E i \in 1..Len(OpFlags) : Truthy(a[OpFlags[i]])

\* the branch of the if / elif chain that is taken: the first true flag
Selected(a) ==
  IF AnyFlag(a)
  THEN OpFlags[CHOOSE i \in 1..Len(OpFlags) :
                 /\ Truthy(a[OpFlags[i]])
                 /\ \A j \in 1..(i - 1) : ~Truthy(a[OpFlags[j]])]
  ELSE "none"

\* ------------------------------------------------------------ the requests
SearchAtomsQuery(search_term, limit) ==
  [query |-> "SearchAtoms",
   variables |-> [searchTerm |-> Str(<<"%">> \o search_term.v \o <<"%">>),
                  limit |-> limit]]
GetAtomQuery(atom_id) ==
  [query |-> "GetAtom", variables |-> [atomId |-> atom_id]]
GetAtomByAddressQuery(address) ==
  [query |-> "GetAtomByAddress",
   variables |-> [address |-> Str(<<"%">> \o address.v \o <<"%">>)]]
GetTriplesAboutQuery(subject_id, limit) ==
  [query |-> "GetTriplesAbout",
   variables |-> [subjectId |-> subject_id, limit |-> limit]]
GetPositionsQuery(atom_id, limit) ==
  [query |-> "GetPositions",
   variables |-> [atomId |-> atom_id, limit |-> limit]]

NoRequest == [query |-> "none"]

\* the sub-queries out of their order: positions before triples
TrustScoreQueries_positions_first(atom_id) ==
  << GetAtomQuery(atom_id),
     GetPositionsQuery(atom_id, Num(TrustScoreLimit)),
     GetTriplesAboutQuery(atom_id, Num(TrustScoreLimit)) >>

\* the three calls calculate_trust_score makes, in the order it makes them
TrustScoreQueries(atom_id) ==
  << GetAtomQuery(atom_id),
     GetTriplesAboutQuery(atom_id, Num(TrustScoreLimit)),
     GetPositionsQuery(atom_id, Num(TrustScoreLimit)) >>

\* execute_query calls urlopen again after a failed call
Resend_on_failure(outcome) == outcome.kind = "exc"

\* whether execute_query issues its request again after an outcome: it has
\* no loop around urlopen
Resend(outcome) == FALSE

\* search_atoms cuts the answer down to the limit itself
SearchResult_truncated(res, limit) ==
  IF HasKey(res, "data") /\ IsObj(res.f.data) /\ HasKey(res.f.data, "atoms")
     /\ res.f.data.f.atoms.t = "list"
  THEN Obj([data |-> Obj([atoms |-> List(Take(res.f.data.f.atoms.e, limit.v))])])
  ELSE res

\* what search_atoms returns: the result of execute_query as it is
SearchResult(res, limit) == res

\* ------------------------------------------------- what the endpoint answers
CommonBodies ==
  { EmptyObj,
    Obj([errors |-> List(<<Obj([message |-> Str(<<"field not found">>)])>>)]),
    Obj([data |-> Null]),
    Obj([data |-> EmptyObj]) }

ListBodies(key, lists) ==
  { Obj([data |-> Obj([k \in {key} |-> List(l)])]) : l \in lists }

\* answers of an endpoint serving records of every shape, in short lists
VariedBodies(query) ==
  CASE query = "GetAtom" ->
         CommonBodies \cup { Obj([data |-> Obj([atom |-> a])]) : a \in AtomShapes \cup {Null} }
    [] query = "GetTriplesAbout" ->
         CommonBodies \cup { Obj([data |-> Obj([triples |-> Null])]) }
           \cup ListBodies("triples", SeqsOf(TripleShapes, 0, MaxShapeLen))
    [] query = "GetPositions" ->
         CommonBodies \cup { Obj([data |-> Obj([positions |-> Null])]) }
           \cup ListBodies("positions", SeqsOf(PositionShapes, 0, MaxShapeLen))
    [] OTHER ->
         CommonBodies \cup ListBodies("atoms", SeqsOf({Candidate}, 0, LimitArg + 1))

\* answers of an endpoint serving well-formed records, in long lists
BulkBodies(query) ==
  CASE query = "GetAtom" -> { Obj([data |-> Obj([atom |-> AtomFull])]) }
    [] query = "GetTriplesAbout" ->
         ListBodies("triples", SeqsOf(TripleBulk, 0, MaxListLen))
    [] query = "GetPositions" ->
         ListBodies("positions", SeqsOf(PositionBulk, 0, MaxListLen))
    [] OTHER -> ListBodies("atoms", SeqsOf({Candidate}, 0, LimitArg + 1))

Outcomes(query, served) ==
  IF served = "varied"
  THEN Failures \cup { Body(b) : b \in VariedBodies(query) }
  ELSE { f \in Failures : f.cls = "URLError" /\ query = "GetAtom" }
         \cup { Body(b) : b \in BulkBodies(query) }

\* ------------------------------------------------------------------- state
VARIABLES
  argv,        \* the command line
  args,        \* the namespace parsed from it
  upstream,    \* which records the endpoint serves: "varied" or "bulk"
  pc,          \* "main", "wait" (blocked in urlopen) or "exit"
  call,        \* the function main dispatched to, "none" before
  inflight,    \* the request urlopen is waiting on
  fetched,     \* results execute_query has returned to the running function
  wire,        \* every request sent and answer received, in order
  result,      \* main's result variable
  stdout,      \* what was printed
  exit_code,   \* the process status once pc = "exit", -1 before
  traceback    \* the class of the exception that ended the process, or "none"

vars == <<argv, args, upstream, pc, call, inflight, fetched, wire, result,
          stdout, exit_code, traceback>>

Init ==
  /\ argv \in Argvs
  /\ args = ParseArgs(argv)
  /\ upstream \in {"varied", "bulk"}
  /\ pc = "main"
  /\ call = "none"
  /\ inflight = NoRequest
  /\ fetched = <<>>
  /\ wire = <<>>
  /\ result = Null
  /\ stdout = <<>>
  /\ exit_code = -1
  /\ traceback = "none"

SendEv(req) == [ev |-> "send", query |-> req.query, variables |-> req.variables]
\* the answer as seen on the wire: the exception, or the fact of a body
Seen(outcome) == IF outcome.kind = "body" THEN [kind |-> "body"] ELSE outcome
RecvEv(req, outcome) == [ev |-> "recv", query |-> req.query, outcome |-> Seen(outcome)]

\* main calls a function, which builds its request and blocks in urlopen
Enter(fn, req) ==
  /\ pc' = "wait"
  /\ call' = fn
  /\ inflight' = req
  /\ wire' = Append(wire, SendEv(req))
  /\ UNCHANGED <<argv, args, upstream, fetched, result, stdout, exit_code, traceback>>

\* the rest of main once the called function has returned or raised
Leave(res) ==
  LET out == IF res.raised THEN res ELSE format_output(res.value, args.format) IN
  /\ pc' = "exit"
  /\ inflight' = NoRequest
  /\ result' = IF res.raised THEN result ELSE res.value
  /\ IF res.raised
     THEN stdout' = stdout /\ exit_code' = 1 /\ traceback' = res.exc
     ELSE IF ~Truthy(res.value)
     THEN stdout' = stdout /\ exit_code' = 0 /\ traceback' = traceback
     ELSE IF out.raised
     THEN stdout' = stdout /\ exit_code' = 1 /\ traceback' = out.exc
     ELSE stdout' = Append(stdout, out.value) /\ exit_code' = 0 /\ traceback' = traceback

\* no operation flag is true: print the help and exit with status 1
Usage ==
  /\ pc = "main"
  /\ ~AnyFlag(args)
  /\ pc' = "exit"
  /\ stdout' = Append(stdout, [mode |-> "help"])
  /\ exit_code' = 1
  /\ UNCHANGED <<argv, args, upstream, call, inflight, fetched, wire, result, traceback>>

search_atoms ==
  /\ pc = "main" /\ Selected(args) = "search"
  /\ Enter("search_atoms", SearchAtomsQuery(args.search, args.limit))

get_atom_by_id ==
  /\ pc = "main" /\ Selected(args) = "atom_id"
  /\ Enter("get_atom_by_id", GetAtomQuery(args.atom_id))

get_atom_by_address ==
  /\ pc = "main" /\ Selected(args) = "address"
  /\ Enter("get_atom_by_address", GetAtomByAddressQuery(args.address))

get_triples_about ==
  /\ pc = "main" /\ Selected(args) = "triples_about"
  /\ Enter("get_triples_about", GetTriplesAboutQuery(args.triples_about, args.limit))

get_positions_on_atom ==
  /\ pc = "main" /\ Selected(args) = "positions"
  /\ Enter("get_positions_on_atom", GetPositionsQuery(args.positions, args.limit))

\* calculate_trust_score starts: its first sub-query goes out
calculate_trust_score_begin ==
  /\ pc = "main" /\ Selected(args) = "trust_score"
  /\ Enter("calculate_trust_score", TrustScoreQueries(args.trust_score)[1])

\* the answer to the request of a single-query function arrives
\* (or urlopen is called again, if execute_query resends)
QueryReturns ==
  /\ pc = "wait"
  /\ call # "calculate_trust_score"
  /\ \E outcome \in Outcomes(inflight.query, upstream) :
       IF Resend(outcome)
       THEN /\ wire' = wire \o <<RecvEv(inflight, outcome), SendEv(inflight)>>
            /\ UNCHANGED <<pc, inflight, fetched, result, stdout, exit_code, traceback>>
       ELSE LET res == execute_query(outcome)
                ret == IF call = "search_atoms"
                       THEN SearchResult(res, inflight.variables.limit) ELSE res
            IN /\ wire' = Append(wire, RecvEv(inflight, outcome))
               /\ fetched' = Append(fetched, res)
               /\ Leave(Ok(ret))
  /\ UNCHANGED <<argv, args, upstream, call>>

\* the result of the sub-query named q among those fetched
SubResult(results, atom_id, q) ==
  results[CHOOSE i \in 1..Len(results) : TrustScoreQueries(atom_id)[i].query = q]

\* an answer to a sub-query arrives and the next sub-query goes out
SubQueryReturns ==
  /\ pc = "wait"
  /\ call = "calculate_trust_score"
  /\ Len(fetched) + 1 < Len(TrustScoreQueries(args.trust_score))
  /\ \E outcome \in Outcomes(inflight.query, upstream) :
       IF Resend(outcome)
       THEN /\ wire' = wire \o <<RecvEv(inflight, outcome), SendEv(inflight)>>
            /\ UNCHANGED <<inflight, fetched>>
       ELSE LET next == TrustScoreQueries(args.trust_score)[Len(fetched) + 2] IN
            /\ fetched' = Append(fetched, execute_query(outcome))
            /\ inflight' = next
            /\ wire' = wire \o <<RecvEv(inflight, outcome), SendEv(next)>>
  /\ UNCHANGED <<argv, args, upstream, pc, call, result, stdout, exit_code, traceback>>

\* the answer to the last sub-query arrives: the report is built and printed
LastSubQueryReturns ==
  /\ pc = "wait"
  /\ call = "calculate_trust_score"
  /\ Len(fetched) + 1 = Len(TrustScoreQueries(args.trust_score))
  /\ \E outcome \in Outcomes(inflight.query, upstream) :
       IF Resend(outcome)
       THEN /\ wire' = wire \o <<RecvEv(inflight, outcome), SendEv(inflight)>>
            /\ UNCHANGED <<pc, inflight, fetched, result, stdout, exit_code, traceback>>
       ELSE LET all == Append(fetched, execute_query(outcome)) IN
            /\ fetched' = all
            /\ wire' = Append(wire, RecvEv(inflight, outcome))
            /\ Leave(calculate_trust_score(args.trust_score,
                       SubResult(all, args.trust_score, "GetAtom"),
                       SubResult(all, args.trust_score, "GetTriplesAbout"),
                       SubResult(all, args.trust_score, "GetPositions")))
  /\ UNCHANGED <<argv, args, upstream, call>>

Next ==
  \/ Usage
  \/ search_atoms
  \/ get_atom_by_id
  \/ get_atom_by_address
  \/ get_triples_about
  \/ get_positions_on_atom
  \/ calculate_trust_score_begin
  \/ QueryReturns
  \/ SubQueryReturns
  \/ LastSubQueryReturns

Spec == Init /\ [][Next]_vars

\* ---------------------------------------------------------------- history
IsSend(e) == e.ev = "send"
IsRecv(e) == e.ev = "recv"
Sends == SelectSeq(wire, IsSend)
Recvs == SelectSeq(wire, IsRecv)
SentQueries == [i \in 1..Len(Sends) |-> Sends[i].query]

IsPrefix(s, t) == Len(s) <= Len(t) /\ \A i \in 1..Len(s) : s[i] = t[i]

SingleCalls ==
  {"search_atoms", "get_atom_by_id", "get_atom_by_address",
   "get_triples_about", "get_positions_on_atom"}

Exited == pc = "exit"
\* calculate_trust_score has returned its report to main
ReportReturned == Exited /\ call = "calculate_trust_score" /\ IsObj(result)
\* calculate_trust_score has returned or raised
TrustScoreEnded == Exited /\ call = "calculate_trust_score"

\* the sub-query results calculate_trust_score worked on, by query name
FetchedFor(q) ==
  fetched[CHOOSE i \in 1..Len(Sends) : Sends[i].query = q]

\* the list a result carries under data.<key>, empty when it carries none
ListIn(qr, key) ==
  IF HasKey(qr, "data") /\ IsObj(qr.f.data) /\ HasKey(qr.f.data, key)
     /\ qr.f.data.f[key].t = "list"
  THEN qr.f.data.f[key].e
  ELSE <<>>

\* ------------------------------------------------------------------ C1
\* C1: execute_query never raises: every answer on the wire became a result
\* dict; an HTTP status error became {error: "HTTP Error <code>: <reason>"},
\* a transport failure {error: "URL Error: <reason>"}, any other exception
\* {error: "Request failed: <message>"}; the three prefixes differ and the
\* category decides the prefix (an HTTP error never gets the URL prefix).
ErrorPrefixes == {"HTTP Error ", "URL Error: ", "Request failed: "}

ExpectedError(o) ==
  IF o.cls = "HTTPError"
  THEN <<"HTTP Error ", CodeStr(o.code), ": ", o.reason>>
  ELSE IF o.cls = "URLError" THEN <<"URL Error: ", o.reason>>
  ELSE <<"Request failed: ", o.reason>>

C3_RequestCount ==
  /\ call \in SingleCalls => Len(Sends) = 1
  /\ call = "calculate_trust_score" => Len(Sends) \in 1..3
  /\ TrustScoreEnded => Len(Sends) \in 2..3
  /\ call = "none" => Len(Sends) = 0

\* a trust-score call all of whose sub-queries failed, and no request repeated
C3_Witness ==
  /\ TrustScoreEnded
  /\ \A i \in 1..Len(Recvs) : Recvs[i].outcome.kind = "exc"
  /\ Len(Sends) = 3

\* ------------------------------------------------------------------ C7
\* C7 as stated: the sub-queries go out in the order entity detail,
\* positions, triples.
C7_PositionsBeforeTriples ==
  call = "calculate_trust_score" =>
    IsPrefix(SentQueries, <<"GetAtom", "GetPositions", "GetTriplesAbout">>)

\* C7 amended: the sub-queries go out one after another in the order entity
\* detail, triples, positions; each is sent only after the answer to the
\* previous one has arrived.
C7_Sequential ==
  call = "calculate_trust_score" =>
    /\ IsPrefix(SentQueries, <<"GetAtom", "GetTriplesAbout", "GetPositions">>)
    /\ \A i \in 1..Len(wire) :
         /\ wire[i].ev = (IF i % 2 = 1 THEN "send" ELSE "recv")
         /\ i % 2 = 0 => wire[i].query = wire[i - 1].query

\* all three sub-queries were sent and answered
C7_Witness ==
  /\ TrustScoreEnded
  /\ SentQueries = <<"GetAtom", "GetTriplesAbout", "GetPositions">>
  /\ Len(Recvs) = 3

\* ------------------------------------------------------------------ C2
\* the entity-detail result is an error result or carries no entity
EntityEmpty(qr) ==
  \/ ~HasKey(qr, "data")
  \/ IsNull(qr.f.data)
  \/ IsObj(qr.f.data) /\ IsNull(Get(qr.f.data, "atom", Null))

\* a result that carries a list under data.<key>
Succeeded(qr, key) ==
  HasKey(qr, "data") /\ IsObj(qr.f.data) /\ HasKey(qr.f.data, key)
  /\ qr.f.data.f[key].t = "list"

\* C2: when the entity-detail sub-query gave an error result or empty data
\* (no data key, data null, data.atom null or absent), calculate_trust_score
\* returns a report with atom null and the four entity metrics 0, and
\* top_attestors is filled from a positions answer that has positions.
\* (Stated for runs whose triples and positions sub-queries both succeeded
\* and whose triples block does not fail on its own.)
C2_EmptyEntityStillReports ==
  ( /\ TrustScoreEnded
    /\ EntityEmpty(FetchedFor("GetAtom"))
    /\ Succeeded(FetchedFor("GetTriplesAbout"), "triples")
    /\ Succeeded(FetchedFor("GetPositions"), "positions")
    /\ ~ClaimsPart(FetchedFor("GetTriplesAbout")).raised )
  =>
  /\ IsObj(result)
  /\ IsNull(result.f.atom)
  /\ result.f.metrics.f.total_stake = Num(0)
  /\ result.f.metrics.f.position_count = Num(0)
  /\ result.f.metrics.f.claims_as_subject = Num(0)
  /\ result.f.metrics.f.claims_as_object = Num(0)
  /\ ListIn(FetchedFor("GetPositions"), "positions") # <<>>
       => result.f.top_attestors.e # <<>>

\* ------------------------------------------------------------------ C4
\* C4: in a returned report trust_ratio is null when positive_signal +
\* negative_signal is zero, and a number in [0, 1] when the sum is positive.
C4_TrustRatio ==
  ReportReturned =>
    LET m == result.f.metrics.f
        total == m.positive_signal.v + m.negative_signal.v
    IN /\ total = 0 => IsNull(m.trust_ratio)
       /\ total > 0 => /\ m.trust_ratio.t = "dec4"
                       /\ m.trust_ratio.v \in 0..RatioScale

\* a report whose ratio lies strictly between 0 and 1
C4_Witness ==
  /\ ReportReturned
  /\ result.f.metrics.f.trust_ratio.t = "dec4"
  /\ result.f.metrics.f.trust_ratio.v \in 1..(RatioScale - 1)
  /\ result.f.metrics.f.negative_signal.v > 0

\* ------------------------------------------------------------------ C5
NumericMetrics ==
  {"total_stake", "position_count", "claims_as_subject", "claims_as_object",
   "positive_signal", "negative_signal"}

\* C5: in every returned report each numeric metric is present and is a
\* number, never null, whatever vault or aggregate fields the answers lack.
C5_MetricsAreNumbers ==
  ReportReturned =>
    \A k \in NumericMetrics :
      /\ HasKey(result.f.metrics, k)
      /\ result.f.metrics.f[k].t = "num"

\* ------------------------------------------------------------------ C6
CallFor(flag) ==
  CASE flag = "search" -> "search_atoms"
    [] flag = "atom_id" -> "get_atom_by_id"
    [] flag = "address" -> "get_atom_by_address"
    [] flag = "triples_about" -> "get_triples_about"
    [] flag = "positions" -> "get_positions_on_atom"
    [] flag = "trust_score" -> "calculate_trust_score"
    [] OTHER -> "none"

\* C6: the process exits with status 1 only when no operation flag was
\* given; with a flag given, its operation is called, the result is printed
\* and the status is 0.
C6_ExitStatus ==
  Exited =>
    /\ exit_code = 1 => argv.flag = "none"
    /\ argv.flag # "none" =>
         /\ call = CallFor(argv.flag)
         /\ Len(stdout) = 1 /\ stdout[1].mode \in {"json", "text"}
         /\ exit_code = 0

\* ------------------------------------------------------------------ C8
\* o.get(key).get("label") where both exist, None otherwise
LabelAt(rec, key) ==
  IF HasKey(rec, key) /\ IsObj(rec.f[key]) /\ HasKey(rec.f[key], "label")
  THEN rec.f[key].f.label ELSE Null

\* C8: in a returned report top_claims and top_attestors have at most five
\* entries and are built, entry for entry and in the same order, from the
\* first min(5, n) triples and positions of the answers.
C8_TopFiveInOrder ==
  ReportReturned =>
    LET triples == ListIn(FetchedFor("GetTriplesAbout"), "triples")
        positions == ListIn(FetchedFor("GetPositions"), "positions")
        claims == result.f.top_claims.e
        attestors == result.f.top_attestors.e
    IN /\ Len(claims) = Min(TopN, Len(triples))
       /\ Len(attestors) = Min(TopN, Len(positions))
       /\ \A i \in 1..Len(claims) :
            /\ claims[i].f.predicate = LabelAt(triples[i], "predicate")
            /\ claims[i].f.object = LabelAt(triples[i], "object")
       /\ \A i \in 1..Len(attestors) :
            /\ attestors[i].f.stake = positions[i].f.shares
            /\ attestors[i].f.label = LabelAt(positions[i], "account")

\* both answers had six records, not all alike, and five of each were kept
C8_Witness ==
  /\ ReportReturned
  /\ Len(ListIn(FetchedFor("GetTriplesAbout"), "triples")) = TopN + 1
  /\ Len(ListIn(FetchedFor("GetPositions"), "positions")) = TopN + 1
  /\ Len(result.f.top_claims.e) = TopN
  /\ Len(result.f.top_attestors.e) = TopN
  /\ result.f.top_claims.e[1] # result.f.top_claims.e[2]
  /\ result.f.top_attestors.e[4] # result.f.top_attestors.e[5]

\* ------------------------------------------------------------------ C9
LimitedCalls == {"search_atoms", "get_triples_about", "get_positions_on_atom"}

\* C9 as stated: without --limit the list-bounded operations use limit 10;
\* with --limit N the search result has at most N candidates, also when the
\* transport answers with more.
C9_SearchBoundedByLimit ==
  /\ (call \in LimitedCalls /\ IsNull(argv.limit)) =>
       Sends[1].variables.limit = Num(DefaultLimit)
  /\ (Exited /\ call = "search_atoms" /\ ~IsNull(argv.limit)) =>
       Len(ListIn(result, "atoms")) <= argv.limit.v

\* C9 amended: without --limit search, triples-about and positions send
\* limit 10 in their request; with --limit N they send N, and the search
\* result is the transport's answer unchanged, so it has at most N
\* candidates when the transport answered with at most N.
C9_LimitForwarded ==
  /\ call \in LimitedCalls =>
       Sends[1].variables.limit =
         (IF IsNull(argv.limit) THEN Num(DefaultLimit) ELSE argv.limit)
  /\ (Exited /\ call = "search_atoms") =>
       /\ result = fetched[1]
       /\ Recvs[1].outcome.kind = "body" =>
            Len(ListIn(result, "atoms")) = Len(ListIn(fetched[1], "atoms"))

\* a search with --limit N whose transport answered with more than N
C9_Witness ==
  /\ Exited /\ call = "search_atoms"
  /\ ~IsNull(argv.limit)
  /\ Sends[1].variables.limit = argv.limit
  /\ Len(ListIn(fetched[1], "atoms")) > argv.limit.v

\* ------------------------------------------------------------------ C10
\* C10: in text mode every attestor of a returned report is printed, one
\* without a label as the first 10 characters of its identifier followed by
\* "...", one with a label as that label.
C10_AttestorRendering ==
  (ReportReturned /\ args.format = "text" /\ result.f.top_attestors.e # <<>>) =>
    LET attestors == result.f.top_attestors.e IN
    /\ Len(stdout) = 1
    /\ Len(stdout[1].lines) > Len(attestors)
    /\ \A i \in 1..Len(attestors) :
         LET line == stdout[1].lines[Len(stdout[1].lines) - Len(attestors) + i]
             label == attestors[i].f.label
         IN IF label.t = "str" /\ label.v # <<>>
            THEN line.vals[1] = label
            ELSE /\ attestors[i].f.address.t = "str"
                 /\ line.vals[1] =
                      Str(Take(attestors[i].f.address.v, AddressChars) \o <<"...">>)

====
